---- MODULE Spec2Model ----
(***************************************************************************)
(* Personal Schedule Builder: the page-level sync controller               *)
(* (app/page.tsx, auto-sync version), its Mutation API, the debounced      *)
(* remote save and the Supabase storage helpers (lib/schedule-db.ts).      *)
(*                                                                         *)
(* One React commit (state update, re-render, effects whose dependencies   *)
(* changed) is one step: React flushes the updates of a discrete event     *)
(* and runs the effects before the next event is handled.  Every await on  *)
(* the network is a separate step.                                         *)
(***************************************************************************)
EXTENDS Integers, Sequences, FiniteSets, TLC

(***************************************************************************)
(* Bounds of the model                                                     *)
(***************************************************************************)
\* SpecSlots: generateId() is called for at most SlotsProjectIds projects and
\* SlotsTaskIds scheduled tasks
SlotsProjectIds == 2
SlotsTaskIds == 4
\* SpecProjects: generateId() is called for at most ProjectsProjectIds projects,
\* ProjectsSubTaskIds sub-tasks and ProjectsTaskIds scheduled tasks
ProjectsProjectIds == 2
ProjectsSubTaskIds == 1
ProjectsTaskIds == 1
\* SpecColors: generateId() is called for at most ColorsProjectIds projects and
\* ColorsTaskIds scheduled tasks
ColorsProjectIds == 3
ColorsTaskIds == 1
\* SpecSchedule: generateId() is called for at most ScheduleProjectIds projects,
\* ScheduleSubTaskIds sub-tasks and ScheduleTaskIds scheduled tasks
ScheduleProjectIds == 2
ScheduleSubTaskIds == 1
ScheduleTaskIds == 2
\* SpecReload: at most MaxReloads loadData calls are in flight
MaxReloads == 2
\* Spec: generateId() is called for at most SyncProjectIds projects
SyncProjectIds == 1
\* the wall clock (new Date()) takes the values 0..MaxClock
MaxClock == 1
\* drags are dropped on the first MaxDropSlots time slots
MaxDropSlots == 2
\* at most MaxLoads loadData calls and MaxSaves upsertUserData calls are in flight
MaxLoads == 1
MaxSaves == 1

(***************************************************************************)
(* Program constants                                                       *)
(***************************************************************************)
MAX_TASKS_PER_SLOT == 3
APP_DATA_VERSION == "1.0.5"
APP_VERSION_FOR_DATA == "1.0.5"
LOCAL_STORAGE_KEY == "personal-schedule-builder-data"
USER_DATA_LOCAL_STORAGE_KEY == "personal-schedule-user-bundle"

projectColors ==
  << "bg-blue-500 text-white", "bg-pink-500 text-white", "bg-amber-500 text-white",
     "bg-rose-500 text-white", "bg-sky-500 text-white", "bg-purple-500 text-white",
     "bg-green-500 text-white", "bg-fuchsia-500 text-white", "bg-teal-500 text-white",
     "bg-cyan-500 text-white", "bg-lime-500 text-white", "bg-orange-500 text-white" >>

\* lib/schedule-data.ts: the starter project set
initialProjectsData == << >>

\* lib/schedule-data.ts: morning 8..11, afternoon 12..17, evening 18..23
allTimeSlots ==
  << "slot-morning-08", "slot-morning-09", "slot-morning-10", "slot-morning-11",
     "slot-afternoon-12", "slot-afternoon-13", "slot-afternoon-14",
     "slot-afternoon-15", "slot-afternoon-16", "slot-afternoon-17",
     "slot-evening-18", "slot-evening-19", "slot-evening-20", "slot-evening-21",
     "slot-evening-22", "slot-evening-23" >>

SlotIds == { allTimeSlots[i] : i \in 1..Len(allTimeSlots) }

\* the Supabase client exists (NEXT_PUBLIC_SUPABASE_URL / ANON_KEY are set)
isSupabaseAvailable == TRUE

(***************************************************************************)
(* Values                                                                  *)
(***************************************************************************)
\* null / undefined / absent are the empty sequence, a present value v is <<v>>
Null == << >>
Some(v) == << v >>

NoUser == "none"
Users == { "alice" }

\* texts typed by the user into an EditableField (trimmed, non-empty)
NameInputs == { "Writing" }
TextInputs == { "Draft intro" }

\* time slots that drags are dropped on
DropSlots == { allTimeSlots[i] : i \in 1..MaxDropSlots }

\* generateId(): crypto.randomUUID(), a value no earlier call returned.  The n-th
\* id generated for a project is 100 + n, for a sub-task 200 + n, for a task 300 + n.
generateId(counters, kind) ==
  (CASE kind = "project" -> 100 [] kind = "subTask" -> 200 [] kind = "task" -> 300)
    + counters[kind]

(***************************************************************************)
(* Array helpers                                                           *)
(***************************************************************************)
MapSeq(s, F(_)) == [ i \in 1..Len(s) |-> F(s[i]) ]

Range(s) == { s[i] : i \in 1..Len(s) }

\* Array.prototype.findIndex, 1-based; 0 when no element matches
FindIndex(s, Test(_)) ==
  IF \E i \in 1..Len(s) : Test(s[i])
    THEN CHOOSE i \in 1..Len(s) : Test(s[i]) /\ \A j \in 1..(i - 1) : ~Test(s[j])
    ELSE 0

RemoveAt(s, i) == SubSeq(s, 1, i - 1) \o SubSeq(s, i + 1, Len(s))

InsertAt(s, i, v) == SubSeq(s, 1, i - 1) \o << v >> \o SubSeq(s, i, Len(s))

\* @dnd-kit/sortable arrayMove: splice the element out at from, splice it in at to
arrayMove(s, from, to) == InsertAt(RemoveAt(s, from), to, s[from])

\* schedule[slotId] || []
SlotTasks(schedule, slotId) ==
  IF slotId \in DOMAIN schedule THEN schedule[slotId] ELSE << >>

\* { ...schedule, [slotId]: tasks }
WithSlot(schedule, slotId, tasks) ==
  [ k \in (DOMAIN schedule) \cup { slotId } |->
      IF k = slotId THEN tasks ELSE schedule[k] ]

(***************************************************************************)
(* Bundles                                                                 *)
(***************************************************************************)
getInitialSchedule == [ k \in SlotIds |-> << >> ]

getInitialUserBundle(t) ==
  [ projects |-> initialProjectsData,
    schedule |-> getInitialSchedule,
    nextColorIndex |-> Len(initialProjectsData) % Len(projectColors),
    createdAt |-> t,
    updatedAt |-> t,
    appVersion |-> APP_DATA_VERSION ]

\* JSON.stringify of a bundle, and JSON.parse of a stored text
JSONstringify(value) == [ kind |-> "json", value |-> value ]
JSONparses(text) == text.kind = "json"
JSONparse(text) == text.value

(***************************************************************************)
(* Mutation API: the updater each handler passes to updateCurrentUserData  *)
(***************************************************************************)
ProjectNameChangeUpdater(prev, projectId, newName) ==
  [ prev EXCEPT
      !.projects = MapSeq(prev.projects,
          LAMBDA p : IF p.id = projectId THEN [ p EXCEPT !.name = newName ] ELSE p),
      !.schedule = [ slotId \in DOMAIN prev.schedule |->
          MapSeq(prev.schedule[slotId],
            LAMBDA task : IF task.projectId = projectId
                            THEN [ task EXCEPT !.projectName = newName ]
                            ELSE task) ] ]

updateSubTasksList(subTasks, subTaskId, newText) ==
  MapSeq(subTasks, LAMBDA st : IF st.id = subTaskId THEN [ st EXCEPT !.text = newText ] ELSE st)

SubTaskTextChangeUpdater(prev, projectId, subTaskId, newText) ==
  [ prev EXCEPT
      !.projects = MapSeq(prev.projects,
          LAMBDA p : IF p.id = projectId
                       THEN [ p EXCEPT !.subTasks = updateSubTasksList(p.subTasks, subTaskId, newText) ]
                       ELSE p),
      !.schedule = [ slotId \in DOMAIN prev.schedule |->
          MapSeq(prev.schedule[slotId],
            LAMBDA task : IF task.projectId = projectId
                            THEN [ task EXCEPT !.originalProjectSubTasks =
                                     updateSubTasksList(task.originalProjectSubTasks, subTaskId, newText) ]
                            ELSE task) ] ]

toggleSubTaskCompletion(subTasks, subTaskId) ==
  MapSeq(subTasks,
    LAMBDA st : IF st.id = subTaskId THEN [ st EXCEPT !.completed = ~st.completed ] ELSE st)

\* a faulty variant of SubTaskToggleUpdater: the toggle reaches the project but not its scheduled copies
SubTaskToggleUpdater_ProjectOnly(prev, projectId, subTaskId) ==
  [ prev EXCEPT
      !.projects = MapSeq(prev.projects,
          LAMBDA p : IF p.id = projectId
                       THEN [ p EXCEPT !.subTasks = toggleSubTaskCompletion(p.subTasks, subTaskId) ]
                       ELSE p) ]

SubTaskToggleUpdater(prev, projectId, subTaskId) ==
  [ prev EXCEPT
      !.projects = MapSeq(prev.projects,
          LAMBDA p : IF p.id = projectId
                       THEN [ p EXCEPT !.subTasks = toggleSubTaskCompletion(p.subTasks, subTaskId) ]
                       ELSE p),
      !.schedule = [ slotId \in DOMAIN prev.schedule |->
          MapSeq(prev.schedule[slotId],
            LAMBDA task : IF task.projectId = projectId
                            THEN [ task EXCEPT !.originalProjectSubTasks =
                                     toggleSubTaskCompletion(task.originalProjectSubTasks, subTaskId) ]
                            ELSE task) ] ]

AddSubTaskUpdater(prev, projectId, newId) ==
  [ prev EXCEPT
      !.projects = MapSeq(prev.projects,
          LAMBDA p : IF p.id = projectId
                       THEN [ p EXCEPT !.subTasks = Append(p.subTasks,
                                [ id |-> newId, text |-> "New Sub-task", completed |-> FALSE ]) ]
                       ELSE p) ]

RemoveSubTaskUpdater(prev, projectId, subTaskId) ==
  [ prev EXCEPT
      !.projects = MapSeq(prev.projects,
          LAMBDA p : IF p.id = projectId
                       THEN [ p EXCEPT !.subTasks =
                                SelectSeq(p.subTasks, LAMBDA st : st.id # subTaskId) ]
                       ELSE p) ]

\* a faulty variant of AddNewProjectUpdater: the colour follows the number of projects
AddNewProjectUpdater_ByCount(prev, newId) ==
  [ prev EXCEPT
      !.projects = Append(prev.projects,
          [ id |-> newId,
            name |-> "New Project",
            subTasks |-> << >>,
            color |-> projectColors[(Len(prev.projects) % Len(projectColors)) + 1] ]),
      !.nextColorIndex = prev.nextColorIndex + 1 ]

AddNewProjectUpdater(prev, newId) ==
  [ prev EXCEPT
      !.projects = Append(prev.projects,
          [ id |-> newId,
            name |-> "New Project",
            subTasks |-> << >>,
            color |-> projectColors[(prev.nextColorIndex % Len(projectColors)) + 1] ]),
      !.nextColorIndex = prev.nextColorIndex + 1 ]

\* a faulty variant of RemoveProjectUpdater: the project is removed from the list only
RemoveProjectUpdater_NoCascade(prev, projectId) ==
  [ prev EXCEPT !.projects = SelectSeq(prev.projects, LAMBDA p : p.id # projectId) ]

RemoveProjectUpdater(prev, projectId) ==
  [ prev EXCEPT
      !.projects = SelectSeq(prev.projects, LAMBDA p : p.id # projectId),
      !.schedule = [ slotId \in DOMAIN prev.schedule |->
          SelectSeq(prev.schedule[slotId], LAMBDA task : task.projectId # projectId) ] ]

DeleteTaskFromScheduleUpdater(prev, taskId, fromSlotId) ==
  [ prev EXCEPT
      !.schedule = WithSlot(prev.schedule, fromSlotId,
          SelectSeq(prev.schedule[fromSlotId], LAMBDA t : t.id # taskId)) ]

ReorderProjectsUpdater(prev, activeId, overId) ==
  [ prev EXCEPT
      !.projects = arrayMove(prev.projects,
          FindIndex(prev.projects, LAMBDA i : i.id = activeId),
          FindIndex(prev.projects, LAMBDA i : i.id = overId)) ]

\* a faulty variant of NewScheduledTask: the sub-tasks are not copied
NewScheduledTask_NoSubTasks(project, newId) ==
  [ id |-> newId,
    projectId |-> project.id,
    projectName |-> project.name,
    projectColor |-> project.color,
    originalProjectSubTasks |-> << >> ]

\* the snapshot copy built when a project is dropped on a time slot
NewScheduledTask(project, newId) ==
  [ id |-> newId,
    projectId |-> project.id,
    projectName |-> project.name,
    projectColor |-> project.color,
    originalProjectSubTasks |-> MapSeq(project.subTasks, LAMBDA st : st) ]

ScheduleProjectUpdater(prev, overId, newTask) ==
  [ prev EXCEPT
      !.schedule = WithSlot(prev.schedule, overId,
          Append(SlotTasks(prev.schedule, overId), newTask)) ]

\* a faulty variant of MoveTaskUpdater: the task is not removed from its source slot
MoveTaskUpdater_KeepSource(prev, fromSlotId, overId, task) ==
  [ prev EXCEPT
      !.schedule = WithSlot(prev.schedule, overId,
                            Append(SlotTasks(prev.schedule, overId), task)) ]

MoveTaskUpdater(prev, fromSlotId, overId, task) ==
  LET removed == WithSlot(prev.schedule, fromSlotId,
                   SelectSeq(SlotTasks(prev.schedule, fromSlotId), LAMBDA t : t.id # task.id))
  IN  [ prev EXCEPT
          !.schedule = WithSlot(removed, overId, Append(SlotTasks(removed, overId), task)) ]

\* a faulty variant of SlotIsFull: the capacity test is off by one
SlotIsFull_OffByOne(bundle, overId) ==
  Len(SlotTasks(bundle.schedule, overId)) > MAX_TASKS_PER_SLOT

\* the capacity test of handleDragEnd
SlotIsFull(bundle, overId) ==
  Len(SlotTasks(bundle.schedule, overId)) >= MAX_TASKS_PER_SLOT

(***************************************************************************)
(* State                                                                   *)
(***************************************************************************)
VARIABLES
  user,             \* AuthProvider: the signed-in user, NoUser when signed out
  authLoading,      \* AuthProvider: the initial session is still being fetched
  currentUserData,  \* ScheduleApp: the in-memory bundle, Null before the first load
  dataLoaded,       \* ScheduleApp: a load has completed
  syncError,        \* ScheduleApp: the sync-error indicator, Null when clear
  isSaving,         \* ScheduleApp: the save-in-progress indicator
  closureUser,      \* the `user` the debounced callback closed over
  timer,            \* debounce: Null, or Some(bundle) while the timeout is armed
  localStorage,     \* window.localStorage: key -> Null or Some(text)
  remote,           \* table user_data: user id -> Null or Some(bundle)
  loads,            \* loadData calls suspended at an await
  saves,            \* upsertUserData calls suspended at an await
  nextId,           \* per kind of object, the number of the next generateId() call
  now,              \* the wall clock
  lastOp            \* the last operation performed: its name and arguments

vars == << user, authLoading, currentUserData, dataLoaded, syncError, isSaving,
           closureUser, timer, localStorage, remote, loads, saves,
           nextId, now, lastOp >>

authVars == << user, authLoading >>
storeVars == << localStorage, remote >>
asyncVars == << loads, saves >>

Op(name, args) == [ op |-> name, args |-> args ]
NoArgs == [ none |-> TRUE ]

(***************************************************************************)
(* Stored payloads the stores may hold when the page is opened             *)
(***************************************************************************)
\* a project and a bundle written by an earlier session of this application
StoredProject(id, name) ==
  [ id |-> id, name |-> name, subTasks |-> << >>, color |-> projectColors[1] ]

StoredBundle(id, name) ==
  [ projects |-> << StoredProject(id, name) >>,
    schedule |-> getInitialSchedule,
    nextColorIndex |-> 1,
    createdAt |-> 0,
    updatedAt |-> 0,
    appVersion |-> APP_DATA_VERSION ]

\* the blob the local-only version of the page (v1.0.3) keeps under LOCAL_STORAGE_KEY
LegacyBlob ==
  [ version |-> "1.0.3",
    projects |-> << StoredProject(101, "Legacy project") >>,
    schedule |-> getInitialSchedule,
    nextColorIndex |-> 1 ]

\* a text JSON.parse throws on
CorruptText == [ kind |-> "text", value |-> [ raw |-> "{" ] ]

InitLegacyTexts == { Null, Some(JSONstringify(LegacyBlob)), Some(CorruptText) }
\* a bundle stored with a schedule that lacks time slots: what the auto-save
\* wrote after a debug import of such a schedule, or a writer with fewer slots
IncompleteBundle ==
  [ projects |-> << >>,
    schedule |-> [ slotId \in { allTimeSlots[1] } |-> << >> ],
    nextColorIndex |-> 0,
    createdAt |-> 0,
    updatedAt |-> 0,
    appVersion |-> APP_DATA_VERSION ]

InitUserTexts ==
  { Null, Some(JSONstringify(StoredBundle(102, "Anonymous project"))),
    Some(JSONstringify(IncompleteBundle)) }
InitRemoteRows == { Null, Some(StoredBundle(103, "Cloud project")) }

(***************************************************************************)
(* Initial state: ScheduleApp and AuthProvider have mounted.  The first    *)
(* render saw user = null and loading = true, so loadData returned at      *)
(* `if (authLoading) return` and the debounced callback captured null.     *)
(***************************************************************************)
Init ==
  /\ user = NoUser
  /\ authLoading = TRUE
  /\ currentUserData = Null
  /\ dataLoaded = FALSE
  /\ syncError = Null
  /\ isSaving = FALSE
  /\ closureUser = NoUser
  /\ timer = Null
  /\ \E legacy \in InitLegacyTexts, own \in InitUserTexts :
       localStorage = [ k \in { LOCAL_STORAGE_KEY, USER_DATA_LOCAL_STORAGE_KEY } |->
                          IF k = LOCAL_STORAGE_KEY THEN legacy ELSE own ]
  /\ \E row \in InitRemoteRows :
       remote = [ u \in Users |-> IF u = "alice" THEN row ELSE Null ]
  /\ loads = << >>
  /\ saves = << >>
  /\ nextId = [ kind \in { "project", "subTask", "task" } |-> 1 ]
  /\ now = 0
  /\ lastOp = Op("mount", NoArgs)

(***************************************************************************)
(* Effects of ScheduleApp                                                  *)
(***************************************************************************)
\* debounce(func, 2000): a call clears the armed timeout and arms a new one
debounced(tm, bundle) == Some(bundle)

\* auto-save effect (Supabase), run with the values of one render
SupabaseAutoSaveEffect(u, loaded, cud, tm) ==
  IF loaded /\ u # NoUser /\ cud # Null /\ isSupabaseAvailable
    THEN debounced(tm, cud[1])
    ELSE tm

\* auto-save effect (localStorage), run with the values of one render
LocalAutoSaveEffect(u, loaded, cud, ls) ==
  IF loaded /\ u = NoUser /\ cud # Null
    THEN [ ls EXCEPT ![USER_DATA_LOCAL_STORAGE_KEY] = Some(JSONstringify(cud[1])) ]
    ELSE ls

\* the loading screen is not shown: the handlers of the main interface can be invoked
MainInterfaceRendered == ~authLoading /\ dataLoaded /\ currentUserData # Null

\* loadData, unauthenticated branch: the bundle read from localStorage, Null if none is usable
LocalLoadedBundle(ls) ==
  LET text == ls[USER_DATA_LOCAL_STORAGE_KEY]
  IN  IF text = Null THEN Null
      ELSE IF ~JSONparses(text[1]) THEN Null
      ELSE LET b == JSONparse(text[1])
           IN  IF    \/ "projects" \notin DOMAIN b
                     \/ "schedule" \notin DOMAIN b
                     \/ "nextColorIndex" \notin DOMAIN b
                 THEN Null
                 ELSE Some(b)

\* loadData, steps 4 and 5: default when nothing was loaded, then ensure the stamps
EstablishedBundle(loadedBundle, t) ==
  LET b == IF loadedBundle = Null THEN getInitialUserBundle(t) ELSE loadedBundle[1]
  IN  [ projects |-> b.projects,
        schedule |-> b.schedule,
        nextColorIndex |-> b.nextColorIndex,
        createdAt |-> IF "createdAt" \in DOMAIN b THEN b.createdAt ELSE t,
        updatedAt |-> IF "updatedAt" \in DOMAIN b THEN b.updatedAt ELSE t,
        appVersion |-> IF "appVersion" \in DOMAIN b THEN b.appVersion ELSE APP_DATA_VERSION ]

\* upsertUserData: the payload written to the row
BundleToSave(dataBundle, t) ==
  [ dataBundle EXCEPT !.updatedAt = t, !.appVersion = APP_VERSION_FOR_DATA ]

(***************************************************************************)
(* Mutation API                                                            *)
(***************************************************************************)
\* the places << slotId, index >> of the scheduled tasks that copy the project
ScheduledCopies(bundle, projectId) ==
  { place \in { << slotId, k >> : slotId \in DOMAIN bundle.schedule, k \in 1..MAX_TASKS_PER_SLOT + 1 } :
      /\ place[2] <= Len(bundle.schedule[place[1]])
      /\ bundle.schedule[place[1]][place[2]].projectId = projectId }

\* updateCurrentUserData: the updater's result with a fresh updatedAt
updateCurrentUserData(newState, t) == [ newState EXCEPT !.updatedAt = t ]

\* A handler of the main interface commits newState; the re-render runs the
\* two auto-save effects, whose dependency currentUserData has changed.
Mutate(name, args, newState) ==
  LET next == Some(updateCurrentUserData(newState, now))
  IN  /\ currentUserData' = next
      /\ timer' = SupabaseAutoSaveEffect(user, dataLoaded, next, timer)
      /\ localStorage' = LocalAutoSaveEffect(user, dataLoaded, next, localStorage)
      /\ lastOp' = Op(name, args)
      /\ UNCHANGED << authVars, dataLoaded, syncError, isSaving, closureUser, remote,
                      asyncVars, now >>

Projects == currentUserData[1].projects
Schedule == currentUserData[1].schedule

handleProjectNameChange ==
  /\ MainInterfaceRendered
  /\ \E i \in 1..Len(Projects), newName \in NameInputs :
       /\ newName # Projects[i].name
       /\ Mutate("renameProject", [ projectId |-> Projects[i].id, newName |-> newName ],
                 ProjectNameChangeUpdater(currentUserData[1], Projects[i].id, newName))
  /\ UNCHANGED nextId

handleSubTaskTextChange ==
  /\ MainInterfaceRendered
  /\ \E i \in 1..Len(Projects), newText \in TextInputs :
       \E j \in 1..Len(Projects[i].subTasks) :
         /\ newText # Projects[i].subTasks[j].text
         /\ Mutate("editSubTask",
                   [ projectId |-> Projects[i].id, subTaskId |-> Projects[i].subTasks[j].id,
                     newText |-> newText ],
                   SubTaskTextChangeUpdater(currentUserData[1], Projects[i].id,
                                            Projects[i].subTasks[j].id, newText))
  /\ UNCHANGED nextId

handleSubTaskToggle ==
  /\ MainInterfaceRendered
  /\ \E i \in 1..Len(Projects) :
       \E j \in 1..Len(Projects[i].subTasks) :
         Mutate("toggleSubTask",
                [ projectId |-> Projects[i].id, subTaskId |-> Projects[i].subTasks[j].id ],
                SubTaskToggleUpdater(currentUserData[1], Projects[i].id,
                                     Projects[i].subTasks[j].id))
  /\ UNCHANGED nextId

handleAddSubTask ==
  /\ MainInterfaceRendered
  /\ \E i \in 1..Len(Projects) :
       Mutate("addSubTask",
              [ projectId |-> Projects[i].id, subTaskId |-> generateId(nextId, "subTask") ],
              AddSubTaskUpdater(currentUserData[1], Projects[i].id,
                                generateId(nextId, "subTask")))
  /\ nextId' = [ nextId EXCEPT !["subTask"] = @ + 1 ]

handleRemoveSubTask ==
  /\ MainInterfaceRendered
  /\ \E i \in 1..Len(Projects) :
       \E j \in 1..Len(Projects[i].subTasks) :
         Mutate("removeSubTask",
                [ projectId |-> Projects[i].id, subTaskId |-> Projects[i].subTasks[j].id ],
                RemoveSubTaskUpdater(currentUserData[1], Projects[i].id,
                                     Projects[i].subTasks[j].id))
  /\ UNCHANGED nextId

handleAddNewProject ==
  /\ MainInterfaceRendered
  /\ Mutate("addProject", [ projectId |-> generateId(nextId, "project") ],
            AddNewProjectUpdater(currentUserData[1], generateId(nextId, "project")))
  /\ nextId' = [ nextId EXCEPT !["project"] = @ + 1 ]

handleRemoveProject ==
  /\ MainInterfaceRendered
  /\ \E i \in 1..Len(Projects) :
       Mutate("removeProject",
              [ projectId |-> Projects[i].id,
                copies |-> Cardinality(ScheduledCopies(currentUserData[1], Projects[i].id)) ],
              RemoveProjectUpdater(currentUserData[1], Projects[i].id))
  /\ UNCHANGED nextId

handleDeleteTaskFromSchedule ==
  /\ MainInterfaceRendered
  /\ \E fromSlotId \in DOMAIN Schedule :
       \E k \in 1..Len(Schedule[fromSlotId]) :
         Mutate("deleteTask", [ taskId |-> Schedule[fromSlotId][k].id, fromSlotId |-> fromSlotId ],
                DeleteTaskFromScheduleUpdater(currentUserData[1], Schedule[fromSlotId][k].id,
                                              fromSlotId))
  /\ UNCHANGED nextId

\* a faulty variant of Rejected: the rejection passes through updateCurrentUserData
Rejected_Stamped(name, args) ==
  /\ lastOp' = Op(name, args)
  /\ currentUserData' = Some(updateCurrentUserData(currentUserData[1], now + 1))
  /\ UNCHANGED << authVars, dataLoaded, syncError, isSaving, closureUser,
                  timer, storeVars, asyncVars, nextId, now >>

\* A rejected drop: alert(...) and return; no state of the bundle is set
Rejected(name, args) ==
  /\ lastOp' = Op(name, args)
  /\ UNCHANGED << authVars, currentUserData, dataLoaded, syncError, isSaving, closureUser,
                  timer, storeVars, asyncVars, nextId, now >>

\* handleDragEnd, project over project: reorder the project list
DragProjectOverProject ==
  /\ MainInterfaceRendered
  /\ \E i \in 1..Len(Projects), j \in 1..Len(Projects) :
       /\ Projects[i].id # Projects[j].id
       /\ Mutate("reorderProjects", [ activeId |-> Projects[i].id, overId |-> Projects[j].id ],
                 ReorderProjectsUpdater(currentUserData[1], Projects[i].id, Projects[j].id))
  /\ UNCHANGED nextId

\* handleDragEnd, project over time slot: schedule a snapshot copy of the project
DragProjectOverTimeSlot ==
  /\ MainInterfaceRendered
  /\ \E i \in 1..Len(Projects), overId \in DropSlots :
       IF SlotIsFull(currentUserData[1], overId)
         THEN /\ Rejected("scheduleRejected", [ projectId |-> Projects[i].id, overId |-> overId ])
         ELSE /\ Mutate("scheduleProject",
                        [ projectId |-> Projects[i].id, overId |-> overId,
                          taskId |-> generateId(nextId, "task") ],
                        ScheduleProjectUpdater(currentUserData[1], overId,
                          NewScheduledTask(Projects[i], generateId(nextId, "task"))))
              /\ nextId' = [ nextId EXCEPT !["task"] = @ + 1 ]

\* handleDragEnd, scheduled task over time slot: move the task
DragTaskOverTimeSlot ==
  /\ MainInterfaceRendered
  /\ \E fromSlotId \in DOMAIN Schedule, overId \in DropSlots :
       \E k \in 1..Len(Schedule[fromSlotId]) :
         LET task == Schedule[fromSlotId][k]
         IN  IF fromSlotId = overId
               THEN Rejected("moveSameSlot",
                             [ taskId |-> task.id, fromSlotId |-> fromSlotId, overId |-> overId ])
             ELSE IF SlotIsFull(currentUserData[1], overId)
               THEN Rejected("moveRejected",
                             [ taskId |-> task.id, fromSlotId |-> fromSlotId, overId |-> overId ])
             ELSE Mutate("moveTask",
                         [ taskId |-> task.id, fromSlotId |-> fromSlotId, overId |-> overId ],
                         MoveTaskUpdater(currentUserData[1], fromSlotId, overId, task))
  /\ UNCHANGED nextId

\* the wall clock advances
Tick ==
  /\ now < MaxClock
  /\ now' = now + 1
  /\ UNCHANGED << authVars, currentUserData, dataLoaded, syncError, isSaving, closureUser,
                  timer, storeVars, asyncVars, nextId, lastOp >>

(***************************************************************************)
(* Authentication changes and loadData                                     *)
(***************************************************************************)
RemoveItem(ls, key) == [ ls EXCEPT ![key] = Null ]

\* One commit in which the rendered user is NoUser and the loadData effect runs.
\* The unauthenticated branch of loadData has no await: it runs to its end
\* inside the effect.  cud is the bundle of that render, ls the storage before it.
\*   effects of the render, in order: loadData, auto-save (localStorage) with the
\*   dataLoaded and bundle of that render; then the re-render with the loaded
\*   bundle runs auto-save (localStorage) again.
SignedOutCommit(cud, ls, name) ==
  LET loadedBundle == LocalLoadedBundle(ls)
      ls1 == IF loadedBundle = Null
               THEN [ ls EXCEPT ![USER_DATA_LOCAL_STORAGE_KEY] =
                        Some(JSONstringify(getInitialUserBundle(now))) ]
               ELSE ls
      established == Some(EstablishedBundle(loadedBundle, now))
      ls2 == LocalAutoSaveEffect(NoUser, dataLoaded, cud, ls1)
      ls3 == LocalAutoSaveEffect(NoUser, TRUE, established, ls2)
  IN  /\ user' = NoUser
      /\ authLoading' = FALSE
      /\ currentUserData' = established
      /\ dataLoaded' = TRUE
      /\ localStorage' = ls3
      /\ lastOp' = Op(name, NoArgs)
      /\ UNCHANGED << syncError, isSaving, closureUser, timer, remote, asyncVars, nextId, now >>

\* One commit in which the rendered user is u and the loadData effect runs:
\* setDataLoaded(false), then loadData suspends at checkAuth inside
\* migrateLocalStorageToDatabase.  The auto-save (Supabase) effect of the same
\* render still sees the dataLoaded and the bundle of that render.
SignedInCommit(u, name) ==
  /\ user' = u
  /\ authLoading' = FALSE
  /\ dataLoaded' = FALSE
  /\ timer' = SupabaseAutoSaveEffect(u, dataLoaded, currentUserData, timer)
  /\ loads' = Append(loads, [ user |-> u, pc |-> "migCheckAuth", bundle |-> Null,
                              uid |-> NoUser, payload |-> Null ])
  /\ lastOp' = Op(name, [ user |-> u ])
  /\ UNCHANGED << currentUserData, syncError, isSaving, closureUser, storeVars, saves,
                  nextId, now >>

\* AuthProvider: getInitialSession resolves
AuthInitialized ==
  /\ authLoading
  /\ \/ SignedOutCommit(currentUserData, localStorage, "authInitialized")
     \/ \E u \in Users : SignedInCommit(u, "authInitialized")

\* AuthProvider: onAuthStateChange reports a sign-in
SignIn ==
  /\ ~authLoading
  /\ user = NoUser
  /\ Len(loads) < MaxLoads
  /\ \E u \in Users : SignedInCommit(u, "signIn")

\* AuthProvider: onAuthStateChange reports a sign-in while earlier loadData
\* calls may still await their answers
SignInDuringLoad ==
  /\ ~authLoading
  /\ user = NoUser
  /\ Len(loads) < MaxReloads
  /\ \E u \in Users : SignedInCommit(u, "signIn")

\* AuthProvider: onAuthStateChange reports that the session ended (expiry, other tab)
SessionEnded ==
  /\ ~authLoading
  /\ user # NoUser
  /\ SignedOutCommit(currentUserData, localStorage, "sessionEnded")

\* handleSignOut: await signOut(); setCurrentUserData(getInitialUserBundle());
\* localStorage.removeItem(...).  The continuation runs in the microtask that
\* follows the sign-out, before React renders the user change.
handleSignOut ==
  /\ MainInterfaceRendered
  /\ user # NoUser
  /\ \/ \* supabase.auth.signOut() succeeded: the user change and the reset are one commit
        SignedOutCommit(Some(getInitialUserBundle(now)),
                        RemoveItem(localStorage, USER_DATA_LOCAL_STORAGE_KEY), "signOut")
     \/ \* supabase.auth.signOut() failed (the error is only logged): the user stays
        /\ currentUserData' = Some(getInitialUserBundle(now))
        /\ localStorage' = RemoveItem(localStorage, USER_DATA_LOCAL_STORAGE_KEY)
        /\ timer' = SupabaseAutoSaveEffect(user, dataLoaded, currentUserData', timer)
        /\ lastOp' = Op("signOutFailed", NoArgs)
        /\ UNCHANGED << authVars, dataLoaded, syncError, isSaving, closureUser, remote,
                        asyncVars, nextId, now >>

\* migrateLocalStorageToDatabase: the bundle built from the parsed legacy blob
CompleteLocalBundle(parsedLocal, t) ==
  LET localProjects == IF "projects" \in DOMAIN parsedLocal THEN parsedLocal.projects ELSE << >>
      localSchedule == IF "schedule" \in DOMAIN parsedLocal THEN parsedLocal.schedule ELSE << >>
      localIndex == IF "nextColorIndex" \in DOMAIN parsedLocal
                      THEN parsedLocal.nextColorIndex ELSE 0
      localVersion == IF "version" \in DOMAIN parsedLocal /\ parsedLocal.version # ""
                        THEN parsedLocal.version ELSE APP_VERSION_FOR_DATA
      initialDefaults == getInitialUserBundle(t)
  IN  [ projects |-> IF Len(localProjects) > 0 THEN localProjects ELSE initialDefaults.projects,
        schedule |-> IF DOMAIN localSchedule # { } THEN localSchedule
                                                    ELSE initialDefaults.schedule,
        nextColorIndex |-> localIndex,
        createdAt |-> t,
        updatedAt |-> t,
        appVersion |-> localVersion ]

\* checkAuth: supabase.auth.getUser() answers with the signed-in user, or fails
CheckAuthOutcomes == IF user = NoUser THEN { "error" } ELSE { "ok", "error" }
NetworkOutcomes == { "ok", "error" }

\* a faulty variant of FinishLoad: no default bundle when nothing was loaded
FinishLoad_NoDefault(i, loadedBundle, error) ==
  LET established == IF loadedBundle = Null THEN Null
                     ELSE Some(EstablishedBundle(loadedBundle, now))
      ls1 == IF loadedBundle = Null /\ loads[i].user = NoUser
               THEN [ localStorage EXCEPT ![USER_DATA_LOCAL_STORAGE_KEY] =
                        Some(JSONstringify(getInitialUserBundle(now))) ]
               ELSE localStorage
  IN  /\ currentUserData' = established
      /\ dataLoaded' = TRUE
      /\ syncError' = IF error = Null THEN syncError ELSE error
      /\ timer' = SupabaseAutoSaveEffect(user, TRUE, established, timer)
      /\ localStorage' = LocalAutoSaveEffect(user, TRUE, established,
                           IF loads[i].pc = "migUpsert"
                             THEN RemoveItem(ls1, LOCAL_STORAGE_KEY) ELSE ls1)
      /\ loads' = RemoveAt(loads, i)
      /\ lastOp' = Op("loadFinished", [ error |-> error, migrated |-> loads[i].pc = "migUpsert" ])

\* loadData, steps 4 and 5 and the commit: the loaded bundle (or the default)
\* becomes the in-memory bundle; the re-render runs both auto-save effects
\* with the user of that render.
FinishLoad(i, loadedBundle, error) ==
  LET established == Some(EstablishedBundle(loadedBundle, now))
      ls1 == IF loadedBundle = Null /\ loads[i].user = NoUser
               THEN [ localStorage EXCEPT ![USER_DATA_LOCAL_STORAGE_KEY] =
                        Some(JSONstringify(getInitialUserBundle(now))) ]
               ELSE localStorage
  IN  /\ currentUserData' = established
      /\ dataLoaded' = TRUE
      /\ syncError' = IF error = Null THEN syncError ELSE error
      /\ timer' = SupabaseAutoSaveEffect(user, TRUE, established, timer)
      /\ localStorage' = LocalAutoSaveEffect(user, TRUE, established,
                           IF loads[i].pc = "migUpsert"
                             THEN RemoveItem(ls1, LOCAL_STORAGE_KEY) ELSE ls1)
      /\ loads' = RemoveAt(loads, i)
      /\ lastOp' = Op("loadFinished", [ error |-> error, migrated |-> loads[i].pc = "migUpsert" ])

\* loadData continues with getUserData, which suspends at its checkAuth
ContinueWithGetUserData(i, error) ==
  /\ loads' = [ loads EXCEPT ![i] = [ @ EXCEPT !.pc = "getCheckAuth", !.bundle = Null ] ]
  /\ syncError' = IF error = Null THEN syncError ELSE error
  /\ lastOp' = Op("load", NoArgs)
  /\ UNCHANGED << currentUserData, dataLoaded, timer, storeVars >>

\* migrateLocalStorageToDatabase resumes after its checkAuth
LoadMigrationCheckAuth(i) ==
  /\ loads[i].pc = "migCheckAuth"
  /\ \E outcome \in CheckAuthOutcomes :
       LET text == localStorage[LOCAL_STORAGE_KEY]
       IN  IF outcome = "error" \/ text = Null
             THEN ContinueWithGetUserData(i, Null)
           ELSE IF ~JSONparses(text[1])
             THEN ContinueWithGetUserData(i, Some("Data migration failed"))
           ELSE /\ loads' = [ loads EXCEPT ![i] =
                      [ @ EXCEPT !.pc = "migUpsertCheckAuth",
                                 !.bundle = Some(CompleteLocalBundle(JSONparse(text[1]), now)) ] ]
                /\ lastOp' = Op("load", NoArgs)
                /\ UNCHANGED << currentUserData, dataLoaded, syncError, timer, storeVars >>

\* upsertUserData (called by the migration) resumes after its checkAuth
LoadMigrationUpsertCheckAuth(i) ==
  /\ loads[i].pc = "migUpsertCheckAuth"
  /\ \E outcome \in CheckAuthOutcomes :
       IF outcome = "error"
         THEN ContinueWithGetUserData(i, Some("Data migration failed"))
         ELSE /\ loads' = [ loads EXCEPT ![i] =
                    [ @ EXCEPT !.pc = "migUpsert", !.uid = user,
                               !.payload = Some(BundleToSave(loads[i].bundle[1], now)) ] ]
              /\ lastOp' = Op("load", NoArgs)
              /\ UNCHANGED << currentUserData, dataLoaded, syncError, timer, storeVars >>

\* a faulty variant of LoadMigrationUpsert: the legacy key is removed whatever the answer
LoadMigrationUpsert_RemoveAlways(i) ==
  /\ loads[i].pc = "migUpsert"
  /\ \E outcome \in NetworkOutcomes :
       IF outcome = "error"
         THEN /\ loads' = [ loads EXCEPT ![i] = [ @ EXCEPT !.pc = "getCheckAuth", !.bundle = Null ] ]
              /\ syncError' = Some("Data migration failed")
              /\ lastOp' = Op("load", NoArgs)
              /\ localStorage' = RemoveItem(localStorage, LOCAL_STORAGE_KEY)
              /\ UNCHANGED << currentUserData, dataLoaded, timer, remote >>
         ELSE /\ remote' = [ remote EXCEPT ![loads[i].uid] = loads[i].payload ]
              /\ FinishLoad(i, loads[i].bundle, Null)

\* the upsert of the migration answers: on success the legacy key is removed
\* and the migrated bundle is the loaded bundle
LoadMigrationUpsert(i) ==
  /\ loads[i].pc = "migUpsert"
  /\ \E outcome \in NetworkOutcomes :
       IF outcome = "error"
         THEN /\ ContinueWithGetUserData(i, Some("Data migration failed"))
         ELSE /\ remote' = [ remote EXCEPT ![loads[i].uid] = loads[i].payload ]
              /\ FinishLoad(i, loads[i].bundle, Null)

\* getUserData resumes after its checkAuth
LoadGetCheckAuth(i) ==
  /\ loads[i].pc = "getCheckAuth"
  /\ \E outcome \in CheckAuthOutcomes :
       IF outcome = "error"
         THEN /\ FinishLoad(i, Null, Some("Failed to load data from cloud"))
              /\ UNCHANGED remote
         ELSE /\ loads' = [ loads EXCEPT ![i] = [ @ EXCEPT !.pc = "getSelect", !.uid = user ] ]
              /\ lastOp' = Op("load", NoArgs)
              /\ UNCHANGED << currentUserData, dataLoaded, syncError, timer, storeVars >>

\* the select of getUserData answers: the row, no row (PGRST116), or an error
LoadGetSelect(i) ==
  /\ loads[i].pc = "getSelect"
  /\ \E outcome \in NetworkOutcomes :
       /\ IF outcome = "error"
            THEN FinishLoad(i, Null, Some("Failed to load data from cloud"))
            ELSE FinishLoad(i, remote[loads[i].uid], Null)
       /\ UNCHANGED remote

LoadStep ==
  /\ \E i \in 1..Len(loads) :
       \/ LoadMigrationCheckAuth(i)
       \/ LoadMigrationUpsertCheckAuth(i)
       \/ LoadMigrationUpsert(i)
       \/ LoadGetCheckAuth(i)
       \/ LoadGetSelect(i)
  /\ UNCHANGED << authVars, isSaving, closureUser, saves, nextId, now >>

(***************************************************************************)
(* Debounced save, upsertUserData, clear all data                          *)
(***************************************************************************)
NewSave(origin, bundle) ==
  [ origin |-> origin, pc |-> "checkAuth", bundle |-> bundle, uid |-> NoUser, payload |-> Null ]

\* a faulty variant of DebounceFires: the callback tests the user of the current render
DebounceFires_CurrentUser ==
  /\ timer # Null
  /\ timer' = Null
  /\ IF user = NoUser \/ ~isSupabaseAvailable
       THEN UNCHANGED << isSaving, syncError, saves >>
       ELSE /\ Len(saves) < MaxSaves
            /\ isSaving' = TRUE
            /\ syncError' = Null
            /\ saves' = Append(saves, NewSave("autosave", timer[1]))
  /\ lastOp' = Op("debounceFires", NoArgs)
  /\ UNCHANGED << authVars, currentUserData, dataLoaded, closureUser, storeVars, loads,
                  nextId, now >>

\* The debounce timeout fires and calls the callback built at the first render:
\*   if (!user || !isSupabaseAvailable()) return
\* where user is the value the callback closed over.
DebounceFires ==
  /\ timer # Null
  /\ timer' = Null
  /\ IF closureUser = NoUser \/ ~isSupabaseAvailable
       THEN UNCHANGED << isSaving, syncError, saves >>
       ELSE /\ Len(saves) < MaxSaves
            /\ isSaving' = TRUE
            /\ syncError' = Null
            /\ saves' = Append(saves, NewSave("autosave", timer[1]))
  /\ lastOp' = Op("debounceFires", NoArgs)
  /\ UNCHANGED << authVars, currentUserData, dataLoaded, closureUser, storeVars, loads,
                  nextId, now >>

\* the caller of upsertUserData receives { success: false }
SaveFailed(i) ==
  /\ saves' = RemoveAt(saves, i)
  /\ syncError' = IF saves[i].origin = "autosave" THEN Some("Auto-save failed")
                                                  ELSE Some("Failed to clear cloud data")
  /\ isSaving' = IF saves[i].origin = "autosave" THEN FALSE ELSE isSaving
  /\ lastOp' = Op("saveFinished", [ origin |-> saves[i].origin, ok |-> FALSE ])
  /\ UNCHANGED remote

\* upsertUserData resumes after its checkAuth and builds bundleToSave
SaveCheckAuth(i) ==
  /\ saves[i].pc = "checkAuth"
  /\ \E outcome \in CheckAuthOutcomes :
       IF outcome = "error"
         THEN SaveFailed(i)
         ELSE /\ saves' = [ saves EXCEPT ![i] =
                    [ @ EXCEPT !.pc = "upsert", !.uid = user,
                               !.payload = Some(BundleToSave(saves[i].bundle, now)) ] ]
              /\ lastOp' = Op("save", NoArgs)
              /\ UNCHANGED << syncError, isSaving, remote >>

\* the upsert answers
SaveUpsert(i) ==
  /\ saves[i].pc = "upsert"
  /\ \E outcome \in NetworkOutcomes :
       IF outcome = "error"
         THEN SaveFailed(i)
         ELSE /\ remote' = [ remote EXCEPT ![saves[i].uid] = saves[i].payload ]
              /\ saves' = RemoveAt(saves, i)
              /\ isSaving' = IF saves[i].origin = "autosave" THEN FALSE ELSE isSaving
              /\ lastOp' = Op("saveFinished", [ origin |-> saves[i].origin, ok |-> TRUE ])
              /\ UNCHANGED syncError

SaveStep ==
  /\ \E i \in 1..Len(saves) : SaveCheckAuth(i) \/ SaveUpsert(i)
  /\ UNCHANGED << authVars, currentUserData, dataLoaded, closureUser, timer, localStorage,
                  loads, nextId, now >>

\* handleClearAllData, confirmed by the user
handleClearAllData ==
  /\ MainInterfaceRendered
  /\ LET initialBundle == Some(getInitialUserBundle(now))
     IN  /\ currentUserData' = initialBundle
         /\ IF user = NoUser
              THEN /\ localStorage' = LocalAutoSaveEffect(user, dataLoaded, initialBundle,
                                        RemoveItem(localStorage, USER_DATA_LOCAL_STORAGE_KEY))
                   /\ UNCHANGED << timer, saves >>
              ELSE /\ Len(saves) < MaxSaves
                   /\ saves' = Append(saves, NewSave("clear", initialBundle[1]))
                   /\ timer' = SupabaseAutoSaveEffect(user, dataLoaded, initialBundle, timer)
                   /\ UNCHANGED localStorage
  /\ lastOp' = Op("clearAllData", NoArgs)
  /\ UNCHANGED << authVars, dataLoaded, syncError, isSaving, closureUser, remote, loads,
                  nextId, now >>

(***************************************************************************)
(* Specifications                                                          *)
(***************************************************************************)
\* fewer than max ids of the kind have been generated
IdsBelow(kind, max) == nextId[kind] <= max

\* The sync controller: authentication, loads, saves, and the mutations that
\* add and remove projects.
Next ==
  \/ AuthInitialized
  \/ SignIn
  \/ SessionEnded
  \/ handleSignOut
  \/ LoadStep
  \/ DebounceFires
  \/ SaveStep
  \/ handleClearAllData
  \/ IdsBelow("project", SyncProjectIds) /\ handleAddNewProject
  \/ handleRemoveProject

Spec == Init /\ [][Next]_vars

\* A signed-out session that starts with empty stores.
InitSignedOut ==
  /\ Init
  /\ localStorage = [ k \in { LOCAL_STORAGE_KEY, USER_DATA_LOCAL_STORAGE_KEY } |-> Null ]
  /\ remote = [ u \in Users |-> Null ]

AuthInitializedSignedOut == AuthInitialized /\ user' = NoUser

\* The Mutation API on the time slots: schedule, move, delete, remove project.
NextSlots ==
  \/ AuthInitializedSignedOut
  \/ IdsBelow("project", SlotsProjectIds) /\ handleAddNewProject
  \/ handleRemoveProject
  \/ handleDeleteTaskFromSchedule
  \/ IdsBelow("task", SlotsTaskIds) /\ DragProjectOverTimeSlot
  \/ DragTaskOverTimeSlot

SpecSlots == InitSignedOut /\ [][NextSlots]_vars

\* The Mutation API on projects and sub-tasks and their scheduled copies.
NextProjects ==
  \/ AuthInitializedSignedOut
  \/ handleProjectNameChange
  \/ handleSubTaskTextChange
  \/ handleSubTaskToggle
  \/ IdsBelow("subTask", ProjectsSubTaskIds) /\ handleAddSubTask
  \/ handleRemoveSubTask
  \/ IdsBelow("project", ProjectsProjectIds) /\ handleAddNewProject
  \/ handleRemoveProject
  \/ DragProjectOverProject
  \/ DragTaskOverTimeSlot
  \/ handleDeleteTaskFromSchedule
  \/ IdsBelow("task", ProjectsTaskIds) /\ DragProjectOverTimeSlot
  \/ Tick

SpecProjects == InitSignedOut /\ [][NextProjects]_vars

\* a bundle the signed-out page saved after index - Len(projects) removals
BundleAtColorIndex(index) ==
  [ getInitialUserBundle(0) EXCEPT !.nextColorIndex = index ]

\* A signed-out session that finds its bundle with a colour index at the start
\* or at the end of the palette, or beyond it.
InitColors ==
  /\ user = NoUser
  /\ authLoading = TRUE
  /\ currentUserData = Null
  /\ dataLoaded = FALSE
  /\ syncError = Null
  /\ isSaving = FALSE
  /\ closureUser = NoUser
  /\ timer = Null
  /\ loads = << >>
  /\ saves = << >>
  /\ nextId = [ kind \in { "project", "subTask", "task" } |-> 1 ]
  /\ now = 0
  /\ lastOp = Op("mount", NoArgs)
  /\ \E index \in { 0, Len(projectColors) - 1, 2 * Len(projectColors) - 1 } :
       localStorage = [ k \in { LOCAL_STORAGE_KEY, USER_DATA_LOCAL_STORAGE_KEY } |->
                          IF k = USER_DATA_LOCAL_STORAGE_KEY
                            THEN Some(JSONstringify(BundleAtColorIndex(index)))
                            ELSE Null ]
  /\ remote = [ u \in Users |-> Null ]

\* The colour assignment of the Mutation API: projects added, removed, scheduled.
NextColors ==
  \/ AuthInitializedSignedOut
  \/ IdsBelow("project", ColorsProjectIds) /\ handleAddNewProject
  \/ handleRemoveProject
  \/ IdsBelow("task", ColorsTaskIds) /\ DragProjectOverTimeSlot

SpecColors == InitColors /\ [][NextColors]_vars

\* Authentication changes that follow each other faster than the loads answer.
NextReload ==
  \/ AuthInitialized
  \/ SignInDuringLoad
  \/ SessionEnded
  \/ LoadStep
  \/ IdsBelow("project", SyncProjectIds) /\ handleAddNewProject

SpecReload == Init /\ [][NextReload]_vars

\* Authentication changes and the loads they start, each backend call answering.
NextLoad ==
  \/ AuthInitialized
  \/ SignIn
  \/ SessionEnded
  \/ LoadStep

SpecLoad == Init /\ [][NextLoad]_vars /\ WF_vars(AuthInitialized) /\ WF_vars(LoadStep)

\* Projects that are named, given sub-tasks and dropped on time slots.
NextSchedule ==
  \/ AuthInitializedSignedOut
  \/ IdsBelow("project", ScheduleProjectIds) /\ handleAddNewProject
  \/ handleProjectNameChange
  \/ IdsBelow("subTask", ScheduleSubTaskIds) /\ handleAddSubTask
  \/ IdsBelow("task", ScheduleTaskIds) /\ DragProjectOverTimeSlot

SpecSchedule == InitSignedOut /\ [][NextSchedule]_vars

(***************************************************************************)
(* JavaScript values, as JSON.parse returns them                           *)
(***************************************************************************)
Undef == [ t |-> "undef" ]
JNull == [ t |-> "null" ]
JBool(b) == [ t |-> "bool", b |-> b ]
JNum(n) == [ t |-> "num", n |-> n ]
JStr(s) == [ t |-> "str", s |-> s ]
JArr(a) == [ t |-> "arr", a |-> a ]
JObj(o) == [ t |-> "obj", o |-> o ]
\* a string returned by crypto.randomUUID(): the call that made it tells it apart
Uuid(call) == [ t |-> "uuid", call |-> call ]

\* an object without properties, and obj with obj[k] = v
EmptyObject == [ k \in { } |-> Undef ]
Put(o, k, v) == [ x \in DOMAIN o \cup { k } |-> IF x = k THEN v ELSE o[x] ]

\* the length of the strings the inputs use
StringLength(s) == CASE s = "" -> 0 [] s = "not-an-array" -> 12 [] OTHER -> 1

\* truthiness, as `||` and Boolean() test it
Truthy(v) ==
  CASE v.t \in { "undef", "null" } -> FALSE
    [] v.t = "bool" -> v.b
    [] v.t = "num" -> v.n # 0
    [] v.t = "str" -> v.s # ""
    [] OTHER -> TRUE

\* a || b
OrElse(a, b) == IF Truthy(a) THEN a ELSE b

IsArray(v) == v.t = "arr"
TypeofNumber(v) == v.t = "num"
TypeofObject(v) == v.t \in { "obj", "arr", "null" }

\* v[k] or v.k throws a TypeError on null and undefined
AccessThrows(v) == v.t \in { "undef", "null" }

\* v.k for a v on which the access does not throw
Get(v, k) == IF v.t = "obj" /\ k \in DOMAIN v.o THEN v.o[k] ELSE Undef

\* { ...v }: the own properties of an object; none for null, numbers and booleans
Spread(v) == IF v.t = "obj" THEN v.o ELSE EmptyObject

\* v?.length || 0
LengthOrZero(v) ==
  CASE v.t = "arr" -> Len(v.a)
    [] v.t = "str" -> StringLength(v.s)
    [] OTHER -> 0

(***************************************************************************)
(* The schema migrator of the local-only page (app/page.tsx, v1.0.3)       *)
(***************************************************************************)
APP_VERSION == "1.0.3"

\* o.k of a property map
GetO(o, k) == IF k \in DOMAIN o THEN o[k] ELSE Undef

\* `Project ${index + 1}`
ProjectNumberName(n) == [ t |-> "projectName", n |-> n ]

\* projectColors[index % projectColors.length], for the 1-based position i
PaletteColor(i) == JStr(projectColors[((i - 1) % Len(projectColors)) + 1])

\* the generateId() call of one pass at one place of the input
IdCall(pass, kind, slot, i, k) == [ pass |-> pass, kind |-> kind, slot |-> slot, i |-> i, k |-> k ]

getInitialProjects == JArr(initialProjectsData)
getInitialScheduleJ == JObj([ slotId \in SlotIds |-> JArr(<< >>) ])

\* a faulty variant of MigratedSubTask: every pass gives the sub-task a new id
MigratedSubTask_FreshId(subTask, call) ==
  JObj([ id |-> Uuid(call),
         text |-> OrElse(Get(subTask, "text"), JStr("Untitled Task")),
         completed |-> JBool(Truthy(Get(subTask, "completed"))) ])

\* migrateData: one repaired sub-task
MigratedSubTask(subTask, call) ==
  JObj([ id |-> OrElse(Get(subTask, "id"), Uuid(call)),
         text |-> OrElse(Get(subTask, "text"), JStr("Untitled Task")),
         completed |-> JBool(Truthy(Get(subTask, "completed"))) ])

\* migrateData: Array.isArray(list) ? list.map(...) : []
MigratedSubTasks(list, pass, kind, slot, i) ==
  IF IsArray(list)
    THEN JArr([ k \in 1..Len(list.a) |->
                  MigratedSubTask(list.a[k], IdCall(pass, kind, slot, i, k)) ])
    ELSE JArr(<< >>)

\* the map over the sub-tasks reads a property of null
SubTasksThrow(list) ==
  IsArray(list) /\ \E k \in 1..Len(list.a) : AccessThrows(list.a[k])

\* migrateData: one repaired project at the 1-based position i
MigratedProject(project, pass, i) ==
  JObj([ id |-> OrElse(Get(project, "id"), Uuid(IdCall(pass, "project", "", i, 0))),
         name |-> OrElse(Get(project, "name"), ProjectNumberName(i)),
         subTasks |-> MigratedSubTasks(Get(project, "subTasks"), pass, "subTask", "", i),
         color |-> OrElse(Get(project, "color"), PaletteColor(i)) ])

\* migrateData: one repaired scheduled task at position i of a slot
MigratedTask(task, pass, slot, i) ==
  JObj([ id |-> OrElse(Get(task, "id"), Uuid(IdCall(pass, "task", slot, i, 0))),
         projectId |-> OrElse(Get(task, "projectId"), Uuid(IdCall(pass, "taskProject", slot, i, 0))),
         projectName |-> OrElse(Get(task, "projectName"), JStr("Unknown Project")),
         projectColor |-> OrElse(Get(task, "projectColor"), JStr("bg-gray-500 text-white")),
         originalProjectSubTasks |->
           MigratedSubTasks(Get(task, "originalProjectSubTasks"), pass, "taskSubTask", slot, i) ])

\* migrateData: the validated schedule built over allTimeSlots
ValidatedSchedule(schedule, pass) ==
  JObj([ slotId \in SlotIds |->
           LET slotTasks == Get(schedule, slotId)
           IN  IF IsArray(slotTasks)
                 THEN JArr([ i \in 1..Len(slotTasks.a) |->
                               MigratedTask(slotTasks.a[i], pass, slotId, i) ])
                 ELSE JArr(<< >>) ])

\* migrateData throws a TypeError on this input
migrateThrows(data) ==
  \/ AccessThrows(data)
  \/ LET projects == Get(data, "projects")
     IN  /\ IsArray(projects)
         /\ \E i \in 1..Len(projects.a) :
              \/ AccessThrows(projects.a[i])
              \/ SubTasksThrow(Get(projects.a[i], "subTasks"))
  \/ LET schedule == Get(data, "schedule")
     IN  /\ TypeofObject(schedule)
         /\ schedule # JNull
         /\ \E slotId \in SlotIds :
              LET slotTasks == Get(schedule, slotId)
              IN  /\ IsArray(slotTasks)
                  /\ \E i \in 1..Len(slotTasks.a) :
                       \/ AccessThrows(slotTasks.a[i])
                       \/ SubTasksThrow(Get(slotTasks.a[i], "originalProjectSubTasks"))

\* migrateData(data), for a data on which it returns; pass numbers the call
migrateData(data, pass) ==
  LET version == OrElse(Get(data, "version"), JStr("1.0.0"))
      isFirstVersion == version = JStr("1.0.0")
      d0 == Spread(data)
      \* version 1.0.0 -> 1.0.1
      d1 == IF isFirstVersion /\ ~TypeofNumber(GetO(d0, "nextColorIndex"))
              THEN Put(d0, "nextColorIndex",
                       JNum(LengthOrZero(GetO(d0, "projects")) % Len(projectColors)))
              ELSE d0
      d2 == IF isFirstVersion /\ IsArray(GetO(d1, "projects"))
              THEN Put(d1, "projects",
                       JArr([ i \in 1..Len(GetO(d1, "projects").a) |->
                                LET project == GetO(d1, "projects").a[i]
                                IN  JObj(Put(Spread(project), "color",
                                             OrElse(Get(project, "color"), PaletteColor(i)))) ]))
              ELSE d1
      \* general validation and repair
      projects == IF IsArray(GetO(d2, "projects")) THEN GetO(d2, "projects")
                                                   ELSE getInitialProjects
      repaired == JArr([ i \in 1..Len(projects.a) |-> MigratedProject(projects.a[i], pass, i) ])
      d3 == Put(d2, "projects", repaired)
      schedule == GetO(d3, "schedule")
      d4 == Put(d3, "schedule",
                IF ~TypeofObject(schedule) \/ schedule = JNull
                  THEN getInitialScheduleJ
                  ELSE ValidatedSchedule(schedule, pass))
      d5 == IF ~TypeofNumber(GetO(d4, "nextColorIndex"))
              THEN Put(d4, "nextColorIndex", JNum(Len(repaired.a) % Len(projectColors)))
              ELSE d4
  IN  JObj(Put(d5, "version", JStr(APP_VERSION)))

(***************************************************************************)
(* The migrator applied to stored blobs (loadFromLocalStorage) and to its  *)
(* own result (the state re-imported by handleDebugStateApply), v1.0.3     *)
(***************************************************************************)
\* the object with the given properties, those given as Undef left out
Obj(fields) == JObj([ k \in { x \in DOMAIN fields : fields[x] # Undef } |-> fields[k] ])

SubTaskInputs ==
  { JNull,
    JObj(EmptyObject),
    Obj([ id |-> JStr("st-1"), text |-> JStr("Draft intro"), completed |-> JBool(TRUE) ]) }

SubTaskListInputs ==
  { Undef, JNull, JArr(<< >>) } \cup { JArr(<< st >>) : st \in SubTaskInputs }

ProjectInputs ==
  { JNull, JNum(5) }
    \cup { Obj([ id |-> id, name |-> name, subTasks |-> subTasks ]) :
             id \in { Undef, JStr("proj-1") }, name \in { Undef, JStr("Writing") },
             subTasks \in SubTaskListInputs }

ProjectsInputs ==
  { Undef, JNull, JStr("not-an-array"), JStr("x"), JArr(<< >>) }
    \cup { JArr(<< project >>) : project \in ProjectInputs }
    \cup { JArr(<< Obj([ id |-> JStr("proj-1") ]), Obj([ id |-> JStr("proj-1") ]) >>),
           JArr(<< JObj(EmptyObject), JObj(EmptyObject) >>) }

TaskInputs ==
  { JNull, JObj(EmptyObject) }
    \cup { Obj([ id |-> JStr("task-1"), projectId |-> JStr("proj-1"),
                 projectName |-> JStr("Writing"), originalProjectSubTasks |-> subTasks ]) :
             subTasks \in { Undef, JArr(<< JNull >>), JArr(<< JObj(EmptyObject) >>) } }

ScheduleInputs ==
  { Undef, JNull, JStr("x"), JArr(<< >>),
    Obj([ unknown |-> JArr(<< >>) ]),
    JObj([ slotId \in { allTimeSlots[1] } |-> JStr("x") ]) }
    \cup { JObj([ slotId \in { allTimeSlots[1] } |-> JArr(<< task >>) ]) : task \in TaskInputs }

VersionInputs == { Undef, JStr("1.0.0"), JStr("1.0.2"), JStr(APP_VERSION) }
ColorIndexInputs == { Undef, JNum(1), JNum(-1), JStr("x") }

\* the values JSON.parse may return for the stored blob
MigrateInputs ==
  { JNull, JNum(7) }
    \cup { Obj([ version |-> version, projects |-> projects, schedule |-> schedule,
                 nextColorIndex |-> index ]) :
             version \in VersionInputs, projects \in ProjectsInputs,
             schedule \in ScheduleInputs, index \in ColorIndexInputs }

\* the local-only page has mounted; LOCAL_STORAGE_KEY holds the text of a blob
InitMigrate ==
  /\ user = NoUser
  /\ authLoading = FALSE
  /\ currentUserData = Null
  /\ dataLoaded = FALSE
  /\ syncError = Null
  /\ isSaving = FALSE
  /\ closureUser = NoUser
  /\ timer = Null
  /\ \E data \in MigrateInputs :
       localStorage = [ k \in { LOCAL_STORAGE_KEY, USER_DATA_LOCAL_STORAGE_KEY } |->
                          IF k = LOCAL_STORAGE_KEY THEN Some(JSONstringify(data)) ELSE Null ]
  /\ remote = [ u \in Users |-> Null ]
  /\ loads = << >>
  /\ saves = << >>
  /\ nextId = [ kind \in { "project", "subTask", "task" } |-> 1 ]
  /\ now = 0
  /\ lastOp = Op("mount", NoArgs)

\* loadFromLocalStorage: parse the blob, migrate it, save it back when the
\* version changed; a throw is caught and nothing is loaded
loadFromLocalStorage ==
  /\ lastOp.op = "mount"
  /\ LET parsed == JSONparse(localStorage[LOCAL_STORAGE_KEY][1])
     IN  IF migrateThrows(parsed)
           THEN /\ lastOp' = Op("migrateThrew", NoArgs)
                /\ UNCHANGED << currentUserData, localStorage >>
           ELSE LET migrated == migrateData(parsed, 1)
                IN  /\ currentUserData' = Some(migrated)
                    /\ localStorage' =
                         IF Get(migrated, "version") # Get(parsed, "version")
                           THEN [ localStorage EXCEPT ![LOCAL_STORAGE_KEY] =
                                    Some(JSONstringify(migrated)) ]
                           ELSE localStorage
                    /\ lastOp' = Op("migrate", [ nextColorIndex |-> Get(parsed, "nextColorIndex") ])
  /\ dataLoaded' = TRUE
  /\ UNCHANGED << authVars, syncError, isSaving, closureUser, timer, remote, asyncVars,
                  nextId, now >>

\* handleDebugStateApply (v1.0.3) applied to the migrated state: a second pass
handleDebugStateApplyMigrated ==
  /\ lastOp.op = "migrate"
  /\ currentUserData # Null
  /\ IF migrateThrows(currentUserData[1])
       THEN /\ lastOp' = Op("migrateThrew", NoArgs)
            /\ UNCHANGED currentUserData
       ELSE /\ currentUserData' = Some(migrateData(currentUserData[1], 2))
            /\ lastOp' = Op("migrateAgain", [ first |-> currentUserData[1] ])
  /\ UNCHANGED << authVars, dataLoaded, syncError, isSaving, closureUser, timer, storeVars,
                  asyncVars, nextId, now >>

NextMigrate ==
  \/ loadFromLocalStorage
  \/ handleDebugStateApplyMigrated

SpecMigrate == InitMigrate /\ [][NextMigrate]_vars

(***************************************************************************)
(* The debug import of the synchronised page: handleApplyJson of the debug *)
(* section, then handleDebugStateApply (app/page.tsx, v1.0.5).  The bundle *)
(* is held as JavaScript values, since the import decides its shape.       *)
(***************************************************************************)
\* new Date().toISOString() at time t: a non-empty string
TimeStamp(t) == [ t |-> "time", at |-> t ]

\* getInitialUserBundle(), as JavaScript values
getInitialUserBundleJ(t) ==
  JObj([ projects |-> getInitialProjects,
         schedule |-> getInitialScheduleJ,
         nextColorIndex |-> JNum(Len(initialProjectsData) % Len(projectColors)),
         createdAt |-> TimeStamp(t),
         updatedAt |-> TimeStamp(t),
         appVersion |-> JStr(APP_DATA_VERSION) ])

\* handleApplyJson: the test that decides whether onStateApply is called
ApplyJsonAccepts(parsedData) ==
  /\ TypeofObject(parsedData)
  /\ parsedData # JNull
  /\ IsArray(Get(parsedData, "projects"))
  /\ TypeofObject(Get(parsedData, "schedule"))
  /\ Get(parsedData, "schedule") # JNull

\* handleDebugStateApply: the state updater, a field-wise merge of the import
handleDebugStateApply(prev, newData, t) ==
  LET base == IF prev = Null THEN getInitialUserBundleJ(t) ELSE prev[1]
  IN  JObj([ projects |-> OrElse(Get(newData, "projects"), Get(base, "projects")),
             schedule |-> OrElse(Get(newData, "schedule"), Get(base, "schedule")),
             nextColorIndex |-> IF Get(newData, "nextColorIndex") # Undef
                                  THEN Get(newData, "nextColorIndex")
                                  ELSE Get(base, "nextColorIndex"),
             createdAt |-> OrElse(Get(newData, "createdAt"),
                                  OrElse(Get(base, "createdAt"), TimeStamp(t))),
             updatedAt |-> TimeStamp(t),
             appVersion |-> OrElse(Get(newData, "appVersion"),
                                   OrElse(Get(base, "appVersion"), JStr(APP_DATA_VERSION))) ])

\* the import the debug section is asked to repair
NotAnArrayImport == Obj([ projects |-> JStr("not-an-array"), schedule |-> JNull ])

CreatedAtInputs == { Undef, JStr("2020-01-01T00:00:00.000Z") }

DebugProjectsInputs ==
  { Undef, JStr("not-an-array"), JArr(<< >>), JArr(<< JNull >>),
    JArr(<< Obj([ id |-> JStr("proj-1"), name |-> JStr("Writing") ]) >>) }

DebugScheduleInputs ==
  { Undef, JNull, JArr(<< >>), JObj(EmptyObject),
    JObj([ slotId \in { allTimeSlots[1] } |-> JStr("x") ]) }

DebugColorIndexInputs == { Undef, JNum(1) }

\* the values of the texts typed or uploaded into the debug section
DebugInputs ==
  { JNull, JNum(7), JArr(<< >>), NotAnArrayImport }
    \cup { Obj([ projects |-> projects, schedule |-> schedule, nextColorIndex |-> index,
                 createdAt |-> createdAt ]) :
             projects \in DebugProjectsInputs, schedule \in DebugScheduleInputs,
             index \in DebugColorIndexInputs, createdAt \in CreatedAtInputs }

DebugTexts == { CorruptText } \cup { JSONstringify(data) : data \in DebugInputs }

\* the signed-out page shows the main interface over the default bundle, which
\* the load created and saved (empty stores before it)
InitDebug ==
  /\ user = NoUser
  /\ authLoading = FALSE
  /\ currentUserData = Some(getInitialUserBundleJ(0))
  /\ dataLoaded = TRUE
  /\ syncError = Null
  /\ isSaving = FALSE
  /\ closureUser = NoUser
  /\ timer = Null
  /\ localStorage = [ k \in { LOCAL_STORAGE_KEY, USER_DATA_LOCAL_STORAGE_KEY } |->
                        IF k = USER_DATA_LOCAL_STORAGE_KEY
                          THEN Some(JSONstringify(getInitialUserBundleJ(0)))
                          ELSE Null ]
  /\ remote = [ u \in Users |-> Null ]
  /\ loads = << >>
  /\ saves = << >>
  /\ nextId = [ kind \in { "project", "subTask", "task" } |-> 1 ]
  /\ now = 0
  /\ lastOp = Op("mainInterface", NoArgs)

\* handleApplyJson: parse the text, test its shape, hand it to onStateApply
\* (handleDebugStateApply) or show the error; the re-render after an accepted
\* import runs the two auto-save effects
handleApplyJson ==
  /\ MainInterfaceRendered
  /\ \E jsonText \in DebugTexts :
       IF JSONparses(jsonText) /\ ApplyJsonAccepts(JSONparse(jsonText))
         THEN LET next == Some(handleDebugStateApply(currentUserData, JSONparse(jsonText), now))
              IN  /\ currentUserData' = next
                  /\ timer' = SupabaseAutoSaveEffect(user, dataLoaded, next, timer)
                  /\ localStorage' = LocalAutoSaveEffect(user, dataLoaded, next, localStorage)
                  /\ lastOp' = Op("debugImport", [ newData |-> JSONparse(jsonText) ])
         ELSE /\ lastOp' = Op("debugImportError", [ jsonText |-> jsonText ])
              /\ UNCHANGED << currentUserData, timer, localStorage >>
  /\ UNCHANGED << authVars, dataLoaded, syncError, isSaving, closureUser, remote, asyncVars,
                  nextId, now >>

NextDebug ==
  \/ handleApplyJson
  \/ Tick

SpecDebug == InitDebug /\ [][NextDebug]_vars

(***************************************************************************)
(* Properties                                                              *)
(***************************************************************************)
AllTasks(bundle) ==
  UNION { Range(bundle.schedule[slotId]) : slotId \in DOMAIN bundle.schedule }

\* C1 -- slot capacity: after every "schedule project" and "move scheduled task"
\* (and every other operation on the slots) no time slot holds more than
\* MAX_TASKS_PER_SLOT tasks.
C1_SlotCapacity ==
  currentUserData # Null =>
    \A slotId \in DOMAIN Schedule : Len(Schedule[slotId]) <= MAX_TASKS_PER_SLOT

\* a task has just been moved into a slot that is now full
C1_Witness ==
  /\ lastOp.op = "moveTask"
  /\ Len(Schedule[lastOp.args.overId]) = MAX_TASKS_PER_SLOT

\* C6 -- cascade deletion: a project removed by "remove project" is no longer in
\* projects, and no scheduled task in any slot refers to it, then or later.
\* (Project ids are generated only by "add project", so a generated id that is
\* not in projects is the id of a removed project.)
GeneratedProjectIds == { generateId([ project |-> n ], "project") : n \in 1..(nextId["project"] - 1) }

C6_CascadeDeletion ==
  currentUserData # Null =>
    /\ (lastOp.op = "removeProject" =>
          lastOp.args.projectId \notin { p.id : p \in Range(Projects) })
    /\ \A removedId \in GeneratedProjectIds \ { p.id : p \in Range(Projects) } :
         \A task \in AllTasks(currentUserData[1]) : task.projectId # removedId

\* a project with scheduled copies has just been removed, another project's task stays
C6_Witness ==
  /\ lastOp.op = "removeProject"
  /\ lastOp.args.copies > 0
  /\ AllTasks(currentUserData[1]) # { }

\* C7 -- propagation consistency: every scheduled task of a project P carries
\* P's name, and every copied sub-task whose id is still in P.subTasks carries
\* that sub-task's text and completed value.
C7_PropagationConsistency ==
  currentUserData # Null =>
    \A p \in Range(Projects) :
      \A task \in AllTasks(currentUserData[1]) :
        task.projectId = p.id =>
          /\ task.projectName = p.name
          /\ \A copy \in Range(task.originalProjectSubTasks) :
               \A st \in Range(p.subTasks) :
                 st.id = copy.id => (copy.text = st.text /\ copy.completed = st.completed)

\* a rename, a text edit and a toggle have all reached a scheduled copy
C7_Witness ==
  /\ lastOp.op \in { "renameProject", "editSubTask", "toggleSubTask" }
  /\ \E task \in AllTasks(currentUserData[1]) :
       /\ task.projectId = lastOp.args.projectId
       /\ task.projectName \in NameInputs
       /\ \E copy \in Range(task.originalProjectSubTasks) :
            copy.text \in TextInputs /\ copy.completed

\* the operations of the Mutation API, as lastOp names them
MutationOps ==
  { "renameProject", "editSubTask", "toggleSubTask", "addSubTask", "removeSubTask",
    "addProject", "removeProject", "deleteTask", "reorderProjects", "scheduleProject",
    "moveTask" }

\* two bundles hold the same projects, schedule and colour index
SameContent(a, b) ==
  /\ a.projects = b.projects
  /\ a.schedule = b.schedule
  /\ a.nextColorIndex = b.nextColorIndex

\* C2 -- during an authenticated load the migration writes the Local contents
\* to the user's Remote row only when that row was empty before the write.
C2_MigrationOnlyIntoEmptyRemote ==
  [][ \A i \in 1..Len(loads) :
        ( /\ loads[i].pc = "migUpsert"
          /\ lastOp'.op = "loadFinished"
          /\ lastOp'.args.migrated
          /\ Len(loads') < Len(loads) )
        => remote[loads[i].uid] = Null ]_vars

\* C3 -- debounce collapse: when the debounce timeout armed by the mutations
\* of an authenticated, loaded session fires after the last of them, exactly one upsertUserData is
\* started, and it carries the bundle as it is after the last mutation.
C3_DebounceCollapse ==
  [][ ( /\ lastOp.op \in MutationOps
        /\ timer # Null
        /\ timer' = Null
        /\ user # NoUser
        /\ MainInterfaceRendered )
      => ( /\ Len(saves') = Len(saves) + 1
           /\ saves'[Len(saves')].origin = "autosave"
           /\ SameContent(saves'[Len(saves')].bundle, currentUserData[1]) ) ]_vars

\* C4 -- eventual durability, in its finite form: once an authenticated,
\* loaded session has settled (no debounce timeout armed, no load and no write
\* in flight, no failure reported), the user's Remote row holds the in-memory
\* bundle.
C4_EventualDurability ==
  ( /\ user # NoUser
    /\ MainInterfaceRendered
    /\ timer = Null
    /\ loads = << >>
    /\ saves = << >>
    /\ syncError = Null )
  => ( /\ remote[user] # Null
       /\ SameContent(remote[user][1], currentUserData[1]) )

\* C5 -- cancellation: when the authenticated user changes (login or logout)
\* while a debounce timeout is armed, the timeout is cancelled by that change.
C5_CancelledOnAuthChange ==
  [][ (user' # user /\ timer # Null) => timer' = Null ]_vars

\* C8 -- migration from Local to Remote: when an authenticated load completes
\* without a failure while the Local store holds a valid, non-empty bundle of the unauthenticated
\* session and the user's Remote row was empty, the Remote row then holds that
\* bundle and the Local copy is cleared.
C8_LocalMigratedToRemote ==
  [][ ( /\ lastOp'.op = "loadFinished"
        /\ lastOp'.args.error = Null
        /\ user # NoUser
        /\ LocalLoadedBundle(localStorage) # Null
        /\ remote[user] = Null )
      => ( Len(LocalLoadedBundle(localStorage)[1].projects) > 0
           => /\ remote'[user] # Null
              /\ SameContent(remote'[user][1], LocalLoadedBundle(localStorage)[1])
              /\ localStorage'[USER_DATA_LOCAL_STORAGE_KEY] = Null ) ]_vars

\* C9 -- when the Remote load has failed and the Local store holds a bundle,
\* that bundle is the in-memory bundle the load establishes.
C9_RemoteFailureFallsBackToLocal ==
  ( /\ lastOp.op = "loadFinished"
    /\ lastOp.args.error # Null
    /\ user # NoUser
    /\ LocalLoadedBundle(localStorage) # Null )
  => SameContent(currentUserData[1], LocalLoadedBundle(localStorage)[1])

\* C10 -- once a sign-out and the reload it triggers have settled, the
\* in-memory bundle is the default bundle and the Local store holds no bundle.
C10_SignOutLeavesNoLocalBundle ==
  lastOp.op = "signOut"
  => ( /\ SameContent(currentUserData[1], getInitialUserBundle(now))
       /\ localStorage[USER_DATA_LOCAL_STORAGE_KEY] = Null )

\* C11 -- full-slot rejection: a drop of a project or of a scheduled task on a
\* slot that holds MAX_TASKS_PER_SLOT tasks is rejected with a message, and the
\* rejection leaves the whole in-memory bundle as it was (the slot keeps its
\* MAX_TASKS_PER_SLOT tasks); a drop that is applied found room in the slot.
C11_FullSlotRejection ==
  [][ /\ lastOp'.op \in { "scheduleRejected", "moveRejected" }
         => /\ Len(Schedule[lastOp'.args.overId]) = MAX_TASKS_PER_SLOT
            /\ currentUserData' = currentUserData
      /\ lastOp'.op \in { "scheduleProject", "moveTask" }
         => Len(Schedule[lastOp'.args.overId]) < MAX_TASKS_PER_SLOT ]_vars

\* a project has just been refused by a full slot
C11_Witness ==
  /\ lastOp.op = "scheduleRejected"
  /\ Len(Schedule[lastOp.args.overId]) = MAX_TASKS_PER_SLOT

\* the messages the sync-error indicator shows after a failed Remote save
SaveFailureMessages == { Some("Auto-save failed"), Some("Failed to clear cloud data") }

\* C12 -- failure reporting: a failed Remote save leaves the in-memory bundle
\* unchanged and sets the sync-error indicator; the indicator set by a failed
\* save is cleared by nothing but a successful save, and the next successful
\* save does clear it.
C12_FailureReporting ==
  [][ /\ (lastOp'.op = "saveFinished" /\ ~lastOp'.args.ok /\ Len(saves') < Len(saves))
         => /\ currentUserData' = currentUserData
            /\ syncError' \in SaveFailureMessages
      /\ (syncError \in SaveFailureMessages /\ syncError' = Null)
         => (lastOp'.op = "saveFinished" /\ lastOp'.args.ok)
      /\ ( /\ syncError \in SaveFailureMessages
           /\ lastOp'.op = "saveFinished" /\ lastOp'.args.ok /\ Len(saves') < Len(saves) )
         => syncError' = Null ]_vars

\* C13 -- migration idempotence: on an input on which migrateData returns, a
\* second pass over the result returns and changes nothing: no field, no id,
\* and the stamped version stays.
C13_MigrationIdempotent ==
  /\ lastOp.op = "migrateAgain" => currentUserData[1] = lastOp.args.first
  /\ lastOp.op = "migrateThrew" => currentUserData = Null

\* the second pass ran over a result whose project and sub-task ids the first pass made
C13_Witness ==
  /\ lastOp.op = "migrateAgain"
  /\ LET projects == Get(currentUserData[1], "projects")
     IN  /\ Len(projects.a) > 0
         /\ Get(projects.a[1], "id").t = "uuid"
         /\ Len(Get(projects.a[1], "subTasks").a) > 0
         /\ Get(Get(projects.a[1], "subTasks").a[1], "id").t = "uuid"

\* the ids of the entries of an array are pairwise different
UniqueIds(arr) ==
  \A i \in 1..Len(arr.a), j \in 1..Len(arr.a) :
    i # j => Get(arr.a[i], "id") # Get(arr.a[j], "id")

\* the structural invariants of a migrated bundle
StructurallyValid(bundle) ==
  LET projects == Get(bundle, "projects")
      schedule == Get(bundle, "schedule")
  IN  /\ IsArray(projects)
      /\ UniqueIds(projects)
      /\ \A i \in 1..Len(projects.a) :
           /\ IsArray(Get(projects.a[i], "subTasks"))
           /\ UniqueIds(Get(projects.a[i], "subTasks"))
      /\ schedule.t = "obj"
      /\ DOMAIN schedule.o = SlotIds
      /\ \A slotId \in SlotIds :
           /\ IsArray(schedule.o[slotId])
           /\ UniqueIds(schedule.o[slotId])

\* C14 -- migration totality: on every JSON-parseable input migrateData
\* returns without throwing, and what it returns satisfies the structural
\* invariants (arrays where arrays are expected, unique ids, exactly the known
\* time-slot ids as the keys of schedule).
C14_MigrationTotal ==
  /\ lastOp.op # "migrateThrew"
  /\ lastOp.op \in { "migrate", "migrateAgain" } => StructurallyValid(currentUserData[1])

\* the shape the schema migrator gives a bundle
MigratedShape(bundle) ==
  LET projects == Get(bundle, "projects")
      schedule == Get(bundle, "schedule")
  IN  /\ IsArray(projects)
      /\ schedule.t = "obj"
      /\ DOMAIN schedule.o = SlotIds
      /\ \A slotId \in SlotIds : IsArray(schedule.o[slotId])

\* C15 -- debug import through the schema migrator: every import of a JSON
\* text is accepted without an error and establishes a bundle of the shape the
\* migrator returns; the import of { projects: "not-an-array", schedule: null }
\* establishes the default projects and a schedule with every slot empty.
C15_DebugImportMigrated ==
  /\ lastOp.op = "debugImportError" => ~JSONparses(lastOp.args.jsonText)
  /\ lastOp.op = "debugImport" => MigratedShape(currentUserData[1])
  /\ (lastOp.op = "debugImport" /\ lastOp.args.newData = NotAnArrayImport)
       => /\ Get(currentUserData[1], "projects") = getInitialProjects
          /\ Get(currentUserData[1], "schedule") = getInitialScheduleJ

\* the operations after which a load has established the in-memory bundle
LoadOps == { "authInitialized", "sessionEnded", "signOut", "loadFinished" }

\* C16 -- loads through the schema migrator: the in-memory bundle that any
\* load establishes, from the local store or from the remote row, is
\* structurally valid whatever the stored payload was: its schedule has
\* exactly the known time-slot ids as keys.
C16_LoadsMigrated ==
  (lastOp.op \in LoadOps /\ dataLoaded /\ currentUserData # Null)
    => DOMAIN currentUserData[1].schedule = SlotIds

\* C17 -- add project: the operation appends exactly one project at the end
\* of the list, with an empty sub-task list and the colour
\* projectColors[nextColorIndex mod 12] of the index before it, advances
\* nextColorIndex by one (so successive additions take consecutive colours of
\* the palette, wrapping after the twelfth) and leaves the schedule unchanged.
C17_AddProject ==
  [][ lastOp'.op = "addProject"
        => LET prev == currentUserData[1]
               next == currentUserData'[1]
               added == next.projects[Len(next.projects)]
           IN  /\ Len(next.projects) = Len(prev.projects) + 1
               /\ SubSeq(next.projects, 1, Len(prev.projects)) = prev.projects
               /\ added.id = lastOp'.args.projectId
               /\ added.subTasks = << >>
               /\ added.color = projectColors[(prev.nextColorIndex % 12) + 1]
               /\ next.nextColorIndex = prev.nextColorIndex + 1
               /\ next.schedule = prev.schedule ]_vars

\* two successive additions wrapped around the palette: the last colour of the
\* palette, then the first, while a scheduled task sits in the schedule and the
\* list holds fewer projects than were ever added
C17_Witness ==
  /\ lastOp.op = "addProject"
  /\ currentUserData[1].nextColorIndex = Len(projectColors) + 1
  /\ Len(Projects) >= 2
  /\ Projects[Len(Projects) - 1].color = projectColors[Len(projectColors)]
  /\ Projects[Len(Projects)].color = projectColors[1]
  /\ AllTasks(currentUserData[1]) # { }

\* C18 -- scheduling a project: a drop of project P on a slot that holds fewer
\* than MAX_TASKS_PER_SLOT tasks appends exactly one new scheduled task at the
\* end of the slot, with P's id and copies of P's name, colour and sub-tasks
\* at the drop; the projects, nextColorIndex and every other slot stay as
\* they were.
C18_ScheduleProject ==
  [][ lastOp'.op = "scheduleProject"
        => LET prev == currentUserData[1]
               next == currentUserData'[1]
               overId == lastOp'.args.overId
               P == CHOOSE p \in Range(prev.projects) : p.id = lastOp'.args.projectId
               before == prev.schedule[overId]
               after == next.schedule[overId]
               added == after[Len(after)]
           IN  /\ Len(before) < MAX_TASKS_PER_SLOT
               /\ Len(after) = Len(before) + 1
               /\ SubSeq(after, 1, Len(before)) = before
               /\ added.id = lastOp'.args.taskId
               /\ \A task \in AllTasks(prev) : task.id # added.id
               /\ added.projectId = P.id
               /\ added.projectName = P.name
               /\ added.projectColor = P.color
               /\ added.originalProjectSubTasks = P.subTasks
               /\ next.projects = prev.projects
               /\ next.nextColorIndex = prev.nextColorIndex
               /\ DOMAIN next.schedule = DOMAIN prev.schedule
               /\ \A slotId \in DOMAIN prev.schedule \ { overId } :
                    next.schedule[slotId] = prev.schedule[slotId] ]_vars

\* a renamed project with a sub-task has just been dropped on a slot that held
\* a task, while another slot or the same one holds the task scheduled before
C18_Witness ==
  /\ lastOp.op = "scheduleProject"
  /\ LET tasks == Schedule[lastOp.args.overId]
     IN  /\ Len(tasks) = 2
         /\ tasks[2].id = lastOp.args.taskId
         /\ tasks[2].projectName # "New Project"
         /\ Len(tasks[2].originalProjectSubTasks) = 1
         /\ tasks[1].projectId # tasks[2].projectId

\* C19 -- time stamps: every operation that changes an existing in-memory
\* bundle, the debug import among them, refreshes updatedAt with the current
\* time and leaves createdAt as it was set when the bundle was created.
C19_CreatedAtKept ==
  [][ (currentUserData # Null /\ currentUserData' # Null /\ currentUserData' # currentUserData)
        => /\ Get(currentUserData'[1], "updatedAt") = TimeStamp(now)
           /\ Get(currentUserData'[1], "createdAt") = Get(currentUserData[1], "createdAt") ]_vars

\* the controller is loading: authentication is being determined, no bundle is
\* established yet, or the loadData call started by the latest change of the
\* authentication state still awaits the backend
Loading ==
  \/ authLoading
  \/ ~dataLoaded
  \/ currentUserData = Null
  \/ /\ user # NoUser
     /\ loads # << >>
     /\ loads[Len(loads)].user = user

\* C20 -- no mutation while loading: a Mutation API operation changes the
\* in-memory bundle only when the controller is not loading.
C20_NoMutationWhileLoading ==
  [][ (lastOp'.op \in MutationOps /\ currentUserData' # currentUserData) => ~Loading ]_vars

\* C21 -- mutually exclusive backends: a bundle is written under the Local
\* store key only while nobody is authenticated and a Remote save is started
\* only while a user is authenticated; and while a user is authenticated the
\* debounced persist of a mutation goes to the Remote store: when its timeout
\* fires after the mutation, a Remote save starts.
C21_BackendByAuthState ==
  [][ /\ ( /\ localStorage'[USER_DATA_LOCAL_STORAGE_KEY] # localStorage[USER_DATA_LOCAL_STORAGE_KEY]
           /\ localStorage'[USER_DATA_LOCAL_STORAGE_KEY] # Null )
         => user' = NoUser
      /\ Len(saves') > Len(saves) => user # NoUser
      /\ ( /\ lastOp'.op = "debounceFires"
           /\ lastOp.op \in MutationOps
           /\ user # NoUser /\ dataLoaded /\ timer = currentUserData
           /\ isSupabaseAvailable )
         => Len(saves') = Len(saves) + 1 ]_vars

\* C22 -- migration deletes after the write: the legacy Local copy is removed
\* only by the step in which the Remote write of the migration succeeds, the
\* Remote record then holding its content; a step in which the write of the
\* migration fails (no valid session, network error) leaves the Local copy as
\* it was, for a later load to migrate.
C22_LocalDeletedAfterRemoteWrite ==
  [][ /\ (localStorage[LOCAL_STORAGE_KEY] # Null /\ localStorage'[LOCAL_STORAGE_KEY] = Null)
         => /\ lastOp'.op = "loadFinished"
            /\ lastOp'.args.migrated
            /\ \E u \in Users :
                 /\ remote'[u] # Null
                 /\ SameContent(remote'[u][1],
                      CompleteLocalBundle(JSONparse(localStorage[LOCAL_STORAGE_KEY][1]), now))
      /\ \A i \in 1..Len(loads) :
           ( /\ loads[i].pc \in { "migUpsertCheckAuth", "migUpsert" }
             /\ Len(loads') = Len(loads)
             /\ loads'[i].pc = "getCheckAuth" )
           => localStorage'[LOCAL_STORAGE_KEY] = localStorage[LOCAL_STORAGE_KEY] ]_vars

\* a migration failed at its Remote write, and a later load has migrated the
\* legacy copy, which is now removed
C22_Witness ==
  /\ lastOp.op = "loadFinished"
  /\ lastOp.args.migrated
  /\ syncError = Some("Data migration failed")
  /\ localStorage[LOCAL_STORAGE_KEY] = Null
  /\ \E u \in Users : remote[u] # Null /\ SameContent(remote[u][1], LegacyBlob)

\* the places << slotId, index >> of the schedule, and those that hold the task
TaskPlaces(bundle) ==
  { place \in { << slotId, k >> : slotId \in DOMAIN bundle.schedule,
                                  k \in 1..MAX_TASKS_PER_SLOT + 1 } :
      place[2] <= Len(bundle.schedule[place[1]]) }

PlacesOfTask(bundle, taskId) ==
  { place \in TaskPlaces(bundle) : bundle.schedule[place[1]][place[2]].id = taskId }

\* C23 -- move scheduled task: a move to another slot that is not full removes
\* the task from its source slot and appends it at the end of the target slot,
\* every other slot staying as it was; a drop on the task's own slot changes
\* nothing; after every move or refused move the schedule holds as many tasks
\* as before and the task's id occurs in exactly one place.
C23_MoveTask ==
  [][ /\ lastOp'.op = "moveTask"
         => LET prev == currentUserData[1]
                next == currentUserData'[1]
                from == lastOp'.args.fromSlotId
                over == lastOp'.args.overId
                task == CHOOSE t \in Range(prev.schedule[from]) : t.id = lastOp'.args.taskId
            IN  /\ from # over
                /\ Len(prev.schedule[over]) < MAX_TASKS_PER_SLOT
                /\ next.schedule[from] = SelectSeq(prev.schedule[from], LAMBDA t : t # task)
                /\ Len(next.schedule[from]) = Len(prev.schedule[from]) - 1
                /\ next.schedule[over] = Append(prev.schedule[over], task)
                /\ \A slotId \in DOMAIN prev.schedule \ { from, over } :
                     next.schedule[slotId] = prev.schedule[slotId]
                /\ next.projects = prev.projects
      /\ lastOp'.op = "moveSameSlot"
         => /\ lastOp'.args.fromSlotId = lastOp'.args.overId
            /\ currentUserData' = currentUserData
      /\ lastOp'.op \in { "moveTask", "moveSameSlot", "moveRejected" }
         => /\ Cardinality(TaskPlaces(currentUserData'[1]))
                 = Cardinality(TaskPlaces(currentUserData[1]))
            /\ Cardinality(PlacesOfTask(currentUserData'[1], lastOp'.args.taskId)) = 1 ]_vars

\* a task has just been moved out of a slot that keeps another task, to the
\* end of a slot that held a task before
C23_Witness ==
  /\ lastOp.op = "moveTask"
  /\ Len(Schedule[lastOp.args.fromSlotId]) >= 1
  /\ Len(Schedule[lastOp.args.overId]) >= 2
  /\ Schedule[lastOp.args.overId][Len(Schedule[lastOp.args.overId])].id = lastOp.args.taskId

\* the default bundle: the starter projects, an empty list for every known
\* time slot, the colour index after the starter projects
IsDefaultBundle(bundle) ==
  /\ bundle.projects = initialProjectsData
  /\ DOMAIN bundle.schedule = SlotIds
  /\ \A slotId \in SlotIds : bundle.schedule[slotId] = << >>
  /\ bundle.nextColorIndex = Len(initialProjectsData) % 12

\* C24 -- loads reach Ready: when every backend call answers, the loading
\* state is always followed by a state in which a bundle is established; and
\* a load to which neither store yields data (no usable Local bundle for the
\* signed-out page; no legacy copy migrated and no Remote row, or a failed
\* read, for a signed-in user) establishes the default bundle.
C24_LoadReachesReady ==
  /\ (authLoading \/ ~dataLoaded) ~> (~authLoading /\ dataLoaded /\ currentUserData # Null)
  /\ [][ /\ ( /\ lastOp'.op \in { "authInitialized", "sessionEnded" }
              /\ user' = NoUser
              /\ LocalLoadedBundle(localStorage) = Null )
            => (currentUserData' # Null /\ IsDefaultBundle(currentUserData'[1]))
         /\ ( /\ lastOp'.op = "loadFinished"
              /\ ~lastOp'.args.migrated
              /\ (lastOp'.args.error # Null \/ \A u \in Users : remote[u] = Null) )
            => (currentUserData' # Null /\ IsDefaultBundle(currentUserData'[1])) ]_vars

\* a signed-in load that found no legacy copy and no Remote row has finished
C24_Witness ==
  /\ lastOp.op = "loadFinished"
  /\ ~lastOp.args.migrated
  /\ lastOp.args.error = Null
  /\ user # NoUser
  /\ remote[user] = Null
  /\ dataLoaded
  /\ IsDefaultBundle(currentUserData[1])

\* C25 -- clear all data, unauthenticated: once the operation and the effects
\* of its re-render have run, the in-memory bundle is the default bundle and
\* the Local store key holds no bundle.
C25_ClearLeavesNoLocalBundle ==
  (lastOp.op = "clearAllData" /\ user = NoUser)
    => /\ IsDefaultBundle(currentUserData[1])
       /\ localStorage[USER_DATA_LOCAL_STORAGE_KEY] = Null

\* C26 -- colour index coercion: the nextColorIndex migrateData returns is a
\* number that is not negative, and when the stored value was missing or not a
\* number it is the length of the returned projects list mod 12, whatever the
\* stored version.
C26_ColorIndexCoerced ==
  lastOp.op = "migrate"
    => LET index == Get(currentUserData[1], "nextColorIndex")
           projects == Get(currentUserData[1], "projects")
       IN  /\ TypeofNumber(index)
           /\ index.n >= 0
           /\ ~TypeofNumber(lastOp.args.nextColorIndex)
                => index.n = Len(projects.a) % 12

\* C27 -- no auto-save of the previous session's bundle: the commit in which
\* a user becomes authenticated schedules no debounced Remote write (the
\* bundle in memory is still the one of the session before), and while the
\* load it started has not established a bundle no timeout that fires starts
\* a Remote save.
C27_NoAutoSaveAcrossAuthChange ==
  [][ /\ (user' # user /\ user' # NoUser) => timer' = timer
      /\ (lastOp'.op = "debounceFires" /\ user # NoUser /\ ~dataLoaded) => saves' = saves ]_vars

\* C28 -- superseded loads are discarded: when a loadData call finishes that
\* was started for a user who is no longer the current one, its result does
\* not replace the in-memory bundle, which stays the one of the load for the
\* latest authentication state.
C28_SupersededLoadDiscarded ==
  [][ \A i \in 1..Len(loads) :
        ( /\ lastOp'.op = "loadFinished"
          /\ loads' = RemoveAt(loads, i)
          /\ loads[i].user # user )
        => currentUserData' = currentUserData ]_vars

====
